---- MODULE Spec2Model ----
\* A model of MazeGameEnv (src/MazeGameEnv.py): a grid world with a
\* reset/step lifecycle.  Positions are <<row, col>>, 0-based as in the code.
\* A maze is a sequence of rows, each a sequence of one-character strings
\* (the Python list of lists handed to __init__); cell (row, col) of the
\* code is maze[row + 1][col + 1] here.
\* Rewards are kept exact as integers in hundredths: 1.0 is 100, -0.01 is -1.
EXTENDS Integers, Sequences, FiniteSets, TLC

VARIABLES
    status,       \* "new" before __init__, "ready" after it returned, "error" when it raised
    maze,         \* self.maze
    num_rows,     \* self.num_rows
    num_cols,     \* self.num_cols
    start_pos,    \* self.start_pos
    goal_pos,     \* self.goal_pos
    pit_pos,      \* self.pit_pos
    current_pos,  \* self.current_pos
    steps,        \* self.steps
    ret,          \* what the last reset or step call returned to the driver
    call,         \* the last reset or step call as the driver made it: its action and the state it found
    calls,        \* number of step calls since the last reset (or construction)
    stale,        \* TRUE when some step since the last reset was made after a step had reported terminated
    shares_start, \* TRUE while self.current_pos is the very array self.start_pos refers to
    script,       \* how many leading steps since the last reset followed ScenarioScript; -1 when off it
    pygame_init,  \* pygame.get_init(): the display subsystem is initialized
    quits,        \* number of pygame.quit() calls made
    closes        \* number of close calls made

\* The display resource and the bookkeeping of close.
display == <<pygame_init, quits, closes>>

vars == <<status, maze, num_rows, num_cols, start_pos, goal_pos, pit_pos,
          current_pos, steps, ret, call, calls, stale, shares_start, script, display>>

-----------------------------------------------------------------------------
\* Bounds of the model.

\* The mazes environments are driven on have at most this many cells.
MaxCells == 3

\* The mazes construction is tried on have at most this many cells.
MaxAnyCells == 4

\* The driver stops calling step this many steps past max_steps.
MaxExtraSteps == 2

\* The driver calls close at most this many times.
MaxCloses == 2

\* Where close is among the driver's calls, an episode has at most this many steps.
MaxCloseSteps == 3

-----------------------------------------------------------------------------
\* Program constants.

max_steps == 200

\* spaces.Discrete(4): the declared actions are 0..NumActions-1.
NumActions == 4

GoalReward == 100
PitReward == 0 - 100
TimeLimitReward == 0
StepReward == 0 - 1

Symbols == {" ", "#", "S", "G", "P"}

\* The undefined value of a field that __init__ has not set.
None == <<>>

-----------------------------------------------------------------------------
\* The mazes the driver constructs environments on.

Shape(m) == <<Len(m), Len(m[1])>>

Cell(m, pos) == m[pos[1] + 1][pos[2] + 1]

Positions(m) == (0 .. Shape(m)[1] - 1) \X (0 .. Shape(m)[2] - 1)

Count(m, sym) == Cardinality({p \in Positions(m) : Cell(m, p) = sym})

Dims(cells) == {d \in (1 .. cells) \X (1 .. cells) : d[1] * d[2] <= cells}

\* Every rectangular maze of at most that many cells, over all five symbols.
Mazes(cells) == UNION {[1 .. d[1] -> [1 .. d[2] -> Symbols]] : d \in Dims(cells)}

AllMazes == Mazes(MaxAnyCells)

\* The construction precondition: exactly one start, one goal, one pit.
WellFormed(m) == Count(m, "S") = 1 /\ Count(m, "G") = 1 /\ Count(m, "P") = 1

\* The 3x3 maze of the documented scenario.
ScenarioMaze ==
    << <<"S", "#", "G">>,
       <<" ", " ", " ">>,
       <<" ", "P", " ">> >>

ValidMazes == {m \in Mazes(MaxCells) : WellFormed(m)} \cup {ScenarioMaze}

-----------------------------------------------------------------------------
\* np.argwhere(maze == sym): the matching positions in row-major order; the
\* code takes element [0], the first of them.

Argwhere(m, sym) == {p \in Positions(m) : Cell(m, p) = sym}

RowMajorLess(p, q) == p[1] < q[1] \/ (p[1] = q[1] /\ p[2] < q[2])

ArgwhereFirst(m, sym) ==
    CHOOSE p \in Argwhere(m, sym) : \A q \in Argwhere(m, sym) : q = p \/ RowMajorLess(p, q)

\* Indexing [0] raises IndexError when no cell matches.
ConstructionRaises(m) ==
    \/ Argwhere(m, "S") = {}
    \/ Argwhere(m, "G") = {}
    \/ Argwhere(m, "P") = {}

-----------------------------------------------------------------------------
\* _get_obs: float32(pos) / float32([num_rows - 1, num_cols - 1]).
\* A quotient is kept as a reduced fraction <<num, den>>.  A division by zero
\* does not raise on numpy arrays: 0/0 is nan, kept as <<0, 0>>, and x/0 with
\* x > 0 is inf, kept as <<1, 0>>.

RECURSIVE Gcd(_, _)
Gcd(a, b) == IF b = 0 THEN a ELSE Gcd(b, a % b)

Divide(n, d) ==
    IF d = 0
    THEN (IF n = 0 THEN <<0, 0>> ELSE <<1, 0>>)
    ELSE <<n \div Gcd(n, d), d \div Gcd(n, d)>>

GetObs(pos, rows, cols) == <<Divide(pos[1], rows - 1), Divide(pos[2], cols - 1)>>

\* _is_valid_position without the test for negative indices, which numpy
\* indexing wraps around to the other end of the grid.
IsValidPositionNoLowerBound(m, rows, cols, pos) ==
    IF pos[1] >= rows \/ pos[2] >= cols
    THEN FALSE
    ELSE IF Cell(m, <<pos[1] % rows, pos[2] % cols>>) = "#"
    THEN FALSE
    ELSE TRUE

\* _is_valid_position without the obstacle check.
IsValidPositionIgnoresWalls(m, rows, cols, pos) ==
    IF pos[1] < 0 \/ pos[2] < 0 \/ pos[1] >= rows \/ pos[2] >= cols
    THEN FALSE
    ELSE TRUE

\* _is_valid_position
IsValidPosition(m, rows, cols, pos) ==
    IF pos[1] < 0 \/ pos[2] < 0 \/ pos[1] >= rows \/ pos[2] >= cols
    THEN FALSE
    ELSE IF Cell(m, pos) = "#"
    THEN FALSE
    ELSE TRUE

\* The if/elif chain with a final else that moves Right.
NewPosElseRight(pos, action) ==
    IF action = 0 THEN <<pos[1] - 1, pos[2]>>
    ELSE IF action = 1 THEN <<pos[1] + 1, pos[2]>>
    ELSE IF action = 2 THEN <<pos[1], pos[2] - 1>>
    ELSE <<pos[1], pos[2] + 1>>

\* The if/elif chain with the branches of Up and Down exchanged.
NewPosUpDownSwapped(pos, action) ==
    IF action = 0 THEN <<pos[1] + 1, pos[2]>>
    ELSE IF action = 1 THEN <<pos[1] - 1, pos[2]>>
    ELSE IF action = 2 THEN <<pos[1], pos[2] - 1>>
    ELSE IF action = 3 THEN <<pos[1], pos[2] + 1>>
    ELSE pos

\* The if/elif chain with the branches of Left and Right exchanged.
NewPosLeftRightSwapped(pos, action) ==
    IF action = 0 THEN <<pos[1] - 1, pos[2]>>
    ELSE IF action = 1 THEN <<pos[1] + 1, pos[2]>>
    ELSE IF action = 2 THEN <<pos[1], pos[2] + 1>>
    ELSE IF action = 3 THEN <<pos[1], pos[2] - 1>>
    ELSE pos

\* The if/elif chain of step: an action that matches no branch leaves
\* new_pos a copy of current_pos.
NewPos(pos, action) ==
    IF action = 0 THEN <<pos[1] - 1, pos[2]>>
    ELSE IF action = 1 THEN <<pos[1] + 1, pos[2]>>
    ELSE IF action = 2 THEN <<pos[1], pos[2] - 1>>
    ELSE IF action = 3 THEN <<pos[1], pos[2] + 1>>
    ELSE pos

\* step assigns new_pos, a fresh array, to self.current_pos when
\* _is_valid_position accepts it.
Accepted(m, rows, cols, pos, action) == IsValidPosition(m, rows, cols, NewPos(pos, action))

\* The move of step: the candidate when _is_valid_position accepts it, else
\* the position the agent is on.
MovedTo(m, rows, cols, pos, action) ==
    LET new_pos == NewPos(pos, action)
    IN IF IsValidPosition(m, rows, cols, new_pos) THEN new_pos ELSE pos

\* The chain with a time limit that truncates without terminating.
OutcomeTruncatedOnly(pos, goal, pit, n) ==
    IF pos = goal
    THEN [reward |-> GoalReward, terminated |-> TRUE, truncated |-> FALSE,
          reason |-> "Goal reached!"]
    ELSE IF pos = pit
    THEN [reward |-> PitReward, terminated |-> TRUE, truncated |-> FALSE,
          reason |-> "Fell into death pit!"]
    ELSE IF n >= max_steps
    THEN [reward |-> TimeLimitReward, terminated |-> FALSE, truncated |-> TRUE,
          reason |-> "Time limit reached"]
    ELSE [reward |-> StepReward, terminated |-> FALSE, truncated |-> FALSE,
          reason |-> "Continue exploring"]

\* The chain with the time limit compared by > instead of >=.
OutcomeLimitOffByOne(pos, goal, pit, n) ==
    IF pos = goal
    THEN [reward |-> GoalReward, terminated |-> TRUE, truncated |-> FALSE,
          reason |-> "Goal reached!"]
    ELSE IF pos = pit
    THEN [reward |-> PitReward, terminated |-> TRUE, truncated |-> FALSE,
          reason |-> "Fell into death pit!"]
    ELSE IF n > max_steps
    THEN [reward |-> TimeLimitReward, terminated |-> TRUE, truncated |-> TRUE,
          reason |-> "Time limit reached"]
    ELSE [reward |-> StepReward, terminated |-> FALSE, truncated |-> FALSE,
          reason |-> "Continue exploring"]

\* The chain with the time limit tested before the goal.
OutcomeLimitBeforeGoal(pos, goal, pit, n) ==
    IF n >= max_steps
    THEN [reward |-> TimeLimitReward, terminated |-> TRUE, truncated |-> TRUE,
          reason |-> "Time limit reached"]
    ELSE IF pos = goal
    THEN [reward |-> GoalReward, terminated |-> TRUE, truncated |-> FALSE,
          reason |-> "Goal reached!"]
    ELSE IF pos = pit
    THEN [reward |-> PitReward, terminated |-> TRUE, truncated |-> FALSE,
          reason |-> "Fell into death pit!"]
    ELSE [reward |-> StepReward, terminated |-> FALSE, truncated |-> FALSE,
          reason |-> "Continue exploring"]

\* The chain with the time limit tested before the pit.
OutcomeLimitBeforePit(pos, goal, pit, n) ==
    IF pos = goal
    THEN [reward |-> GoalReward, terminated |-> TRUE, truncated |-> FALSE,
          reason |-> "Goal reached!"]
    ELSE IF n >= max_steps
    THEN [reward |-> TimeLimitReward, terminated |-> TRUE, truncated |-> TRUE,
          reason |-> "Time limit reached"]
    ELSE IF pos = pit
    THEN [reward |-> PitReward, terminated |-> TRUE, truncated |-> FALSE,
          reason |-> "Fell into death pit!"]
    ELSE [reward |-> StepReward, terminated |-> FALSE, truncated |-> FALSE,
          reason |-> "Continue exploring"]

\* The reward / termination chain of step.
Outcome(pos, goal, pit, n) ==
    IF pos = goal
    THEN [reward |-> GoalReward, terminated |-> TRUE, truncated |-> FALSE,
          reason |-> "Goal reached!"]
    ELSE IF pos = pit
    THEN [reward |-> PitReward, terminated |-> TRUE, truncated |-> FALSE,
          reason |-> "Fell into death pit!"]
    ELSE IF n >= max_steps
    THEN [reward |-> TimeLimitReward, terminated |-> TRUE, truncated |-> TRUE,
          reason |-> "Time limit reached"]
    ELSE [reward |-> StepReward, terminated |-> FALSE, truncated |-> FALSE,
          reason |-> "Continue exploring"]

\* The values a call returns.  reset returns (obs, {}): no reward, flags or
\* reason; "info" is the set of keys of the metadata record.
NoReturn == [op |-> "none", obs |-> None, reward |-> 0, terminated |-> FALSE,
             truncated |-> FALSE, reason |-> "", info |-> {}]

\* A call as the driver made it: the operation, its action, the position and
\* step count it found, and what the call before it had returned.
NoCall == [op |-> "none", action |-> 0 - 1, pos |-> None, steps |-> 0, last |-> NoReturn]

\* The actions of the documented scenario after its first reset: Right, Down,
\* Down, Right, Right.
ScenarioScript == <<3, 1, 1, 3, 3>>

\* The script position after one more step with that action.
Followed(n, action) ==
    IF n >= 0 /\ n < Len(ScenarioScript) /\ action = ScenarioScript[n + 1]
    THEN n + 1
    ELSE 0 - 1

-----------------------------------------------------------------------------
\* __init__

Construct ==
    /\ status = "new"
    /\ \/ /\ ConstructionRaises(maze)
          /\ status' = "error"
          /\ UNCHANGED <<maze, num_rows, num_cols, start_pos, goal_pos, pit_pos,
                         current_pos, steps, ret, call, calls, stale,
                         shares_start, script, display>>
       \/ /\ ~ConstructionRaises(maze)
          /\ status' = "ready"
          /\ start_pos' = ArgwhereFirst(maze, "S")
          /\ goal_pos' = ArgwhereFirst(maze, "G")
          /\ pit_pos' = ArgwhereFirst(maze, "P")
          /\ current_pos' = ArgwhereFirst(maze, "S")
          /\ num_rows' = Shape(maze)[1]
          /\ num_cols' = Shape(maze)[2]
          /\ steps' = 0
          /\ shares_start' = TRUE
          /\ pygame_init' = TRUE
          /\ UNCHANGED <<maze, ret, call, calls, stale, script, quits, closes>>

\* reset that takes the observation before it moves the agent back.
ResetObservesFirst ==
    /\ status = "ready"
    /\ current_pos' = start_pos
    /\ steps' = 0
    /\ ret' = [NoReturn EXCEPT !.op = "reset",
                               !.obs = GetObs(current_pos, num_rows, num_cols)]
    /\ call' = [op |-> "reset", action |-> 0 - 1, pos |-> current_pos, steps |-> steps,
                last |-> ret]
    /\ calls' = 0
    /\ stale' = FALSE
    /\ shares_start' = TRUE
    /\ script' = 0
    /\ UNCHANGED <<status, maze, num_rows, num_cols, start_pos, goal_pos, pit_pos, display>>

\* reset that forgets to clear the step counter.
ResetKeepsSteps ==
    /\ status = "ready"
    /\ current_pos' = start_pos
    /\ steps' = steps
    /\ ret' = [NoReturn EXCEPT !.op = "reset",
                               !.obs = GetObs(current_pos', num_rows, num_cols)]
    /\ call' = [op |-> "reset", action |-> 0 - 1, pos |-> current_pos, steps |-> steps,
                last |-> ret]
    /\ calls' = 0
    /\ stale' = FALSE
    /\ shares_start' = TRUE
    /\ script' = 0
    /\ UNCHANGED <<status, maze, num_rows, num_cols, start_pos, goal_pos, pit_pos, display>>

\* reset
Reset ==
    /\ status = "ready"
    /\ current_pos' = start_pos
    /\ steps' = 0
    /\ ret' = [NoReturn EXCEPT !.op = "reset",
                               !.obs = GetObs(current_pos', num_rows, num_cols)]
    /\ call' = [op |-> "reset", action |-> 0 - 1, pos |-> current_pos, steps |-> steps,
                last |-> ret]
    /\ calls' = 0
    /\ stale' = FALSE
    /\ shares_start' = TRUE
    /\ script' = 0
    /\ UNCHANGED <<status, maze, num_rows, num_cols, start_pos, goal_pos, pit_pos, display>>

\* step that works on self.current_pos itself instead of a copy: the deltas
\* are written into the array, which is also self.start_pos while the two
\* share it.
StepMovesInPlace(action) ==
    /\ status = "ready"
    /\ steps < max_steps + MaxExtraSteps
    /\ LET pos == NewPos(current_pos, action)
           out == Outcome(pos, goal_pos, pit_pos, steps + 1)
       IN /\ current_pos' = pos
          /\ start_pos' = IF shares_start THEN pos ELSE start_pos
          /\ steps' = steps + 1
          /\ ret' = [op |-> "step", obs |-> GetObs(pos, num_rows, num_cols),
                     reward |-> out.reward, terminated |-> out.terminated,
                     truncated |-> out.truncated, reason |-> out.reason,
                     info |-> {"reason"}]
    /\ call' = [op |-> "step", action |-> action, pos |-> current_pos, steps |-> steps,
                last |-> ret]
    /\ calls' = calls + 1
    /\ stale' = (stale \/ ret.terminated)
    /\ shares_start' = shares_start
    /\ script' = Followed(script, action)
    /\ UNCHANGED <<status, maze, num_rows, num_cols, goal_pos, pit_pos, display>>

\* step that counts only the moves it applied.
StepCountsMovesOnly(action) ==
    /\ status = "ready"
    /\ steps < max_steps + MaxExtraSteps
    /\ LET pos == MovedTo(maze, num_rows, num_cols, current_pos, action)
           n == IF pos = current_pos THEN steps ELSE steps + 1
           out == Outcome(pos, goal_pos, pit_pos, n)
       IN /\ current_pos' = pos
          /\ steps' = n
          /\ ret' = [op |-> "step", obs |-> GetObs(pos, num_rows, num_cols),
                     reward |-> out.reward, terminated |-> out.terminated,
                     truncated |-> out.truncated, reason |-> out.reason,
                     info |-> {"reason"}]
    /\ call' = [op |-> "step", action |-> action, pos |-> current_pos, steps |-> steps,
                last |-> ret]
    /\ calls' = calls + 1
    /\ stale' = (stale \/ ret.terminated)
    /\ shares_start' = (shares_start /\ ~Accepted(maze, num_rows, num_cols, current_pos, action))
    /\ script' = Followed(script, action)
    /\ UNCHANGED <<status, maze, num_rows, num_cols, start_pos, goal_pos, pit_pos, display>>

\* step
Step(action) ==
    /\ status = "ready"
    /\ steps < max_steps + MaxExtraSteps
    /\ LET pos == MovedTo(maze, num_rows, num_cols, current_pos, action)
           out == Outcome(pos, goal_pos, pit_pos, steps + 1)
       IN /\ current_pos' = pos
          /\ steps' = steps + 1
          /\ ret' = [op |-> "step", obs |-> GetObs(pos, num_rows, num_cols),
                     reward |-> out.reward, terminated |-> out.terminated,
                     truncated |-> out.truncated, reason |-> out.reason,
                     info |-> {"reason"}]
    /\ call' = [op |-> "step", action |-> action, pos |-> current_pos, steps |-> steps,
                last |-> ret]
    /\ calls' = calls + 1
    /\ stale' = (stale \/ ret.terminated)
    /\ shares_start' = (shares_start /\ ~Accepted(maze, num_rows, num_cols, current_pos, action))
    /\ script' = Followed(script, action)
    /\ UNCHANGED <<status, maze, num_rows, num_cols, start_pos, goal_pos, pit_pos, display>>

\* close that calls pygame.quit() without asking pygame.get_init().
CloseUnguarded ==
    /\ status = "ready"
    /\ closes < MaxCloses
    /\ closes' = closes + 1
    /\ pygame_init' = FALSE
    /\ quits' = quits + 1
    /\ UNCHANGED <<status, maze, num_rows, num_cols, start_pos, goal_pos, pit_pos,
                   current_pos, steps, ret, call, calls, stale, shares_start, script>>

\* close
Close ==
    /\ status = "ready"
    /\ closes < MaxCloses
    /\ closes' = closes + 1
    /\ IF pygame_init
       THEN /\ pygame_init' = FALSE
            /\ quits' = quits + 1
       ELSE UNCHANGED <<pygame_init, quits>>
    /\ UNCHANGED <<status, maze, num_rows, num_cols, start_pos, goal_pos, pit_pos,
                   current_pos, steps, ret, call, calls, stale, shares_start, script>>

\* The values the driver passes to step: the declared actions and one value
\* outside the declared space.
ActionInputs == 0 .. NumActions

-----------------------------------------------------------------------------
\* The environment after construction on a well-formed maze, driven by any
\* sequence of reset and step calls.

InitNew(mazes) ==
    /\ status = "new"
    /\ maze \in mazes
    /\ num_rows = 0
    /\ num_cols = 0
    /\ start_pos = None
    /\ goal_pos = None
    /\ pit_pos = None
    /\ current_pos = None
    /\ steps = 0
    /\ ret = NoReturn
    /\ call = NoCall
    /\ calls = 0
    /\ stale = FALSE
    /\ shares_start = FALSE
    /\ script = 0 - 1
    /\ pygame_init = FALSE
    /\ quits = 0
    /\ closes = 0

Init == InitNew(ValidMazes)

Next ==
    \/ Construct
    \/ Reset
    \/ \E action \in ActionInputs : Step(action)

Spec == Init /\ [][Next]_vars

\* Construction alone, tried on every maze within the bound, well-formed or not.
CtorInit == InitNew(AllMazes)

CtorNext == Construct

CtorSpec == CtorInit /\ [][CtorNext]_vars

\* The whole lifecycle with close among the driver's calls, at any point and
\* repeatedly, over episodes of at most MaxCloseSteps steps.
CloseNext ==
    \/ Construct
    \/ Reset
    \/ \E action \in ActionInputs : steps < MaxCloseSteps /\ Step(action)
    \/ Close

CloseSpec == Init /\ [][CloseNext]_vars

-----------------------------------------------------------------------------
\* Properties of the environment.

\* The maze the environment was built on meets the construction precondition.
OnWellFormedMaze == status = "ready" /\ WellFormed(maze)

\* C1: on a well-formed maze, after any earlier calls, reset leaves
\* current_pos on the start cell and steps at 0, and returns the normalized
\* start position with an empty metadata record.
C1_ResetRestoresStart ==
    (OnWellFormedMaze /\ ret.op = "reset") =>
        /\ current_pos = start_pos
        /\ Cell(maze, current_pos) = "S"
        /\ steps = 0
        /\ ret.obs = GetObs(start_pos, num_rows, num_cols)
        /\ ret.info = {}

\* reset was called after an episode had ended on the goal.
C1_Witness ==
    /\ OnWellFormedMaze
    /\ ret.op = "reset"
    /\ call.pos = goal_pos
    /\ call.steps > 1

\* C2: steps equals the number of step calls since the last reset or since
\* construction, and every step call raises it by exactly one, whether the
\* move was applied, blocked, or ended the episode.
C2_StepCountEqualsCalls ==
    status = "ready" =>
        /\ steps = calls
        /\ (ret.op = "step" => steps = call.steps + 1)

\* Steps that were blocked and steps that ended the episode have been counted:
\* the last step was blocked on a terminal cell after earlier steps.
C2_Witness ==
    /\ ret.op = "step"
    /\ calls > 2
    /\ current_pos = call.pos
    /\ ret.terminated

\* C3: when none of the first max_steps - 1 steps after a reset reported
\* terminated, the step number max_steps reports terminated; and off the
\* goal and the pit it returns reward 0.0, truncated and "Time limit reached".
C3_EpisodeBounded ==
    (ret.op = "step" /\ calls = max_steps /\ ~stale) =>
        /\ ret.terminated
        /\ (current_pos # goal_pos /\ current_pos # pit_pos) =>
               /\ ret.reward = 0
               /\ ret.truncated
               /\ ret.reason = "Time limit reached"

\* The step number max_steps of an episode with no earlier terminal outcome.
C3_Witness ==
    /\ ret.op = "step"
    /\ calls = max_steps
    /\ ~stale
    /\ current_pos # goal_pos
    /\ current_pos # pit_pos

\* C4: a step that leaves current_pos on the goal returns reward 1.0,
\* terminated, not truncated and "Goal reached!", also when steps has reached
\* or passed max_steps.
C4_GoalOutcome ==
    (OnWellFormedMaze /\ ret.op = "step" /\ current_pos = goal_pos) =>
        /\ ret.reward = 100
        /\ ret.terminated
        /\ ~ret.truncated
        /\ ret.reason = "Goal reached!"

\* The goal was entered on a step at or past the time limit.
C4_Witness ==
    /\ OnWellFormedMaze
    /\ ret.op = "step"
    /\ current_pos = goal_pos
    /\ call.pos # goal_pos
    /\ steps >= max_steps

\* C5: a step that leaves current_pos on the pit (and not on the goal)
\* returns reward -1.0, terminated, not truncated and "Fell into death pit!",
\* also when steps has reached max_steps.
C5_PitOutcome ==
    (OnWellFormedMaze /\ ret.op = "step" /\ current_pos = pit_pos
        /\ current_pos # goal_pos) =>
        /\ ret.reward = 0 - 100
        /\ ret.terminated
        /\ ~ret.truncated
        /\ ret.reason = "Fell into death pit!"

\* The pit was entered on the step that reached the time limit.
C5_Witness ==
    /\ OnWellFormedMaze
    /\ ret.op = "step"
    /\ current_pos = pit_pos
    /\ call.pos # pit_pos
    /\ steps = max_steps

\* The candidate of the last step, from the documented deltas: 0=Up (-1,0),
\* 1=Down (+1,0), 2=Left (0,-1), 3=Right (0,+1).
Candidate ==
    CASE call.action = 0 -> <<call.pos[1] - 1, call.pos[2]>>
      [] call.action = 1 -> <<call.pos[1] + 1, call.pos[2]>>
      [] call.action = 2 -> <<call.pos[1], call.pos[2] - 1>>
      [] call.action = 3 -> <<call.pos[1], call.pos[2] + 1>>

\* The last call was a step with a declared action.
DeclaredStep == ret.op = "step" /\ call.action \in 0 .. 3

\* The candidate of the last step is inside the grid and not an obstacle.
CandidateFree == Candidate \in Positions(maze) /\ Cell(maze, Candidate) # "#"

\* C6 as claimed: a step whose candidate is outside the grid or on an
\* obstacle leaves current_pos unchanged, increments steps and returns
\* reward -0.01, "Continue exploring", not terminated, not truncated.  Stated
\* for episodes in which no step was made after a terminal outcome.
C6_BlockedAlwaysContinues ==
    (DeclaredStep /\ ~stale /\ ~CandidateFree) =>
        /\ current_pos = call.pos
        /\ steps = call.steps + 1
        /\ ret.reward = 0 - 1
        /\ ret.reason = "Continue exploring"
        /\ ~ret.terminated
        /\ ~ret.truncated

\* C6 amended: a step whose candidate is outside the grid or on an obstacle
\* leaves current_pos unchanged and increments steps; it returns reward
\* -0.01, "Continue exploring", not terminated, not truncated when the
\* unchanged position is neither goal nor pit and steps is still below
\* max_steps, and the time-limit outcome when steps has reached max_steps
\* off the goal and the pit.
C6_BlockedMove ==
    (DeclaredStep /\ ~CandidateFree) =>
        /\ current_pos = call.pos
        /\ steps = call.steps + 1
        /\ (current_pos # goal_pos /\ current_pos # pit_pos /\ steps < max_steps) =>
               /\ ret.reward = 0 - 1
               /\ ret.reason = "Continue exploring"
               /\ ~ret.terminated
               /\ ~ret.truncated
        /\ (current_pos # goal_pos /\ current_pos # pit_pos /\ steps >= max_steps) =>
               /\ ret.reward = 0
               /\ ret.reason = "Time limit reached"
               /\ ret.terminated
               /\ ret.truncated

\* A step into an obstacle cell, before the time limit.
C6_Witness ==
    /\ DeclaredStep
    /\ Candidate \in Positions(maze)
    /\ Cell(maze, Candidate) = "#"
    /\ steps < max_steps
    /\ ret.reason = "Continue exploring"

\* C7: a step with a declared action whose candidate is inside the grid and
\* not an obstacle sets current_pos to that candidate; and every step changes
\* the position by at most one cell along one axis.
C7_MoveApplied ==
    /\ (DeclaredStep /\ CandidateFree) => current_pos = Candidate
    /\ ret.op = "step" =>
           \/ current_pos = call.pos
           \/ current_pos \in {<<call.pos[1] - 1, call.pos[2]>>, <<call.pos[1] + 1, call.pos[2]>>,
                               <<call.pos[1], call.pos[2] - 1>>, <<call.pos[1], call.pos[2] + 1>>}

\* A step Left was applied.
C7_Witness ==
    /\ DeclaredStep
    /\ call.action = 2
    /\ CandidateFree
    /\ current_pos # call.pos

\* A component of an observation is a number within [0, 1].
InUnitInterval(q) == q[2] > 0 /\ 0 <= q[1] /\ q[1] <= q[2]

\* C8: on every well-formed maze both components of every returned
\* observation are defined and lie within [0, 1].
C8_ObservationInUnitSquare ==
    (OnWellFormedMaze /\ ret.op \in {"reset", "step"}) =>
        /\ InUnitInterval(ret.obs[1])
        /\ InUnitInterval(ret.obs[2])

\* C9: once a step has returned terminated, every later step made without
\* an intervening reset reports terminated as well.
C9_TerminatedAbsorbing ==
    (OnWellFormedMaze /\ ret.op = "step" /\ stale) => ret.terminated

\* C10: construction raises for every maze that does not hold exactly one
\* start, one goal and one pit cell.
C10_ConstructionRejectsIllFormed ==
    (status # "new" /\ ~WellFormed(maze)) => status = "error"

\* C12: a step called with an action outside {0,1,2,3} is rejected with an
\* error and mutates nothing: current_pos and steps are as before the call.
C12_UndeclaredActionRejected ==
    (call.op = "step" /\ call.action \notin 0 .. 3) =>
        /\ ret.op = "error"
        /\ current_pos = call.pos
        /\ steps = call.steps

\* C15: after any number of close calls the display subsystem is released
\* and pygame.quit() has been called exactly once, on the first close; the
\* later calls change nothing.
C15_CloseReleasesOnce ==
    /\ (status = "ready" /\ closes = 0) => (pygame_init /\ quits = 0)
    /\ closes >= 1 => (~pygame_init /\ quits = 1)

\* close was called a second time.
C15_Witness == closes = 2 /\ calls > 0

\* C13: on the 3x3 scenario maze, from a reset at (0,0): Right leaves the
\* agent on (0,0) with reward -0.01; Down, Down, Right, Right then brings it
\* to (2,2); and along the sequence a goal or pit outcome is reported on a
\* step exactly when the position after it is (0,2) or (2,1).
C13_Scenario ==
    (maze = ScenarioMaze /\ script >= 0) =>
        /\ script = 0 => current_pos = <<0, 0>>
        /\ script = 1 => (current_pos = <<0, 0>> /\ ret.reward = 0 - 1)
        /\ script = 5 => current_pos = <<2, 2>>
        /\ script >= 1 =>
               ((ret.reason \in {"Goal reached!", "Fell into death pit!"})
                    <=> (current_pos \in {<<0, 2>>, <<2, 1>>}))

\* The whole scenario sequence was played on the scenario maze.
C13_Witness == maze = ScenarioMaze /\ script = 5 /\ ret.op = "step"

\* C14: a reset called right after a reset returns the same observation and
\* the same metadata as the first, and leaves current_pos and steps as the
\* first left them.
C14_ResetIdempotent ==
    (ret.op = "reset" /\ call.last.op = "reset") =>
        /\ ret.obs = call.last.obs
        /\ ret.info = call.last.info
        /\ current_pos = call.pos
        /\ steps = call.steps

\* reset was called twice in a row.
C14_Witness == ret.op = "reset" /\ call.last.op = "reset" /\ current_pos = start_pos

\* C16: after construction the maze, its dimensions and the start, goal and
\* pit positions are the ones construction derived, no reset or step call
\* changes them, and every reset puts the agent on the unchanged start cell.
C16_ConstructionDataFrozen ==
    /\ [](status = "ready" =>
            /\ Shape(maze) = <<num_rows, num_cols>>
            /\ start_pos \in Argwhere(maze, "S")
            /\ goal_pos \in Argwhere(maze, "G")
            /\ pit_pos \in Argwhere(maze, "P"))
    /\ [][status = "ready" =>
            /\ maze' = maze
            /\ num_rows' = num_rows
            /\ num_cols' = num_cols
            /\ start_pos' = start_pos
            /\ goal_pos' = goal_pos
            /\ pit_pos' = pit_pos
            /\ (ret'.op = "reset" => current_pos' = start_pos)]_vars

\* A reset after the agent had stepped off the start cell it shared with
\* start_pos.
C16_Witness ==
    /\ ret.op = "reset"
    /\ call.last.op = "step"
    /\ call.pos # start_pos
    /\ current_pos = start_pos
    /\ shares_start

\* C17: a step called with an action outside {0,1,2,3} raises nothing and
\* makes no move: current_pos is unchanged, steps is incremented, and the
\* outcome is the one of the unchanged position.
C17_UndeclaredActionNoOp ==
    (call.op = "step" /\ call.action \notin 0 .. 3) =>
        /\ ret.op = "step"
        /\ current_pos = call.pos
        /\ steps = call.steps + 1
        /\ ret.reason =
               IF call.pos = goal_pos THEN "Goal reached!"
               ELSE IF call.pos = pit_pos THEN "Fell into death pit!"
               ELSE IF call.steps + 1 >= max_steps THEN "Time limit reached"
               ELSE "Continue exploring"

\* A step with the undeclared action 4 from a cell with a free cell to its
\* right.
C17_Witness ==
    /\ call.op = "step"
    /\ call.action = 4
    /\ <<call.pos[1], call.pos[2] + 1>> \in Positions(maze)
    /\ Cell(maze, <<call.pos[1], call.pos[2] + 1>>) # "#"

\* C18: in every state after construction current_pos is inside the grid
\* and not on an obstacle cell.
C18_PositionLegal ==
    status = "ready" =>
        /\ current_pos \in Positions(maze)
        /\ Cell(maze, current_pos) # "#"

\* A step towards a cell outside the grid, after earlier steps.
C18_Witness ==
    /\ DeclaredStep
    /\ Candidate \notin Positions(maze)
    /\ calls > 1

\* C19: every step returns one of the four outcome tuples; truncated implies
\* terminated and steps >= max_steps; not terminated implies
\* steps < max_steps and a position that is neither goal nor pit.
C19_OutcomeTuples ==
    ret.op = "step" =>
        /\ <<ret.reward, ret.terminated, ret.truncated, ret.reason>> \in
               { <<100, TRUE, FALSE, "Goal reached!">>,
                 <<0 - 100, TRUE, FALSE, "Fell into death pit!">>,
                 <<0, TRUE, TRUE, "Time limit reached">>,
                 <<0 - 1, FALSE, FALSE, "Continue exploring">> }
        /\ ret.truncated => (ret.terminated /\ steps >= max_steps)
        /\ ~ret.terminated =>
               (steps < max_steps /\ current_pos # goal_pos /\ current_pos # pit_pos)

\* A step returned the time-limit tuple.
C19_Witness == ret.op = "step" /\ ret.truncated

\* C20: as long as no step is made after a step has reported terminated,
\* steps never exceeds max_steps and every step starts from a position that
\* is neither goal nor pit.
C20_DisciplinedEpisode ==
    (status = "ready" /\ ~stale) =>
        /\ steps <= max_steps
        /\ ret.op = "step" => (call.pos # goal_pos /\ call.pos # pit_pos)

\* An episode driven to the time limit, step by step, with no step after a
\* terminal outcome.
C20_Witness ==
    /\ ~stale
    /\ ret.op = "step"
    /\ steps = max_steps
    /\ ret.terminated

====
